---- MODULE Spec2Model ----
(***************************************************************************)
(* Sleeping-barber Shop monitor (Shop.cpp / Shop.h) driven by driver.cpp.  *)
(*                                                                         *)
(* Threads: customers 1..num_customers (driver.cpp customer()) and barbers *)
(* 0..max_working_barb_-1 (driver.cpp barber()), plus main.  A thread id   *)
(* position is one of:                                                     *)
(*   customer  "visit"   about to lock in visitShop (Shop.cpp:161)         *)
(*             "v_wait"  blocked at Shop.cpp:193, "v_woken" once woken     *)
(*             "leave"   about to lock in leaveShop (Shop.cpp:260)         *)
(*             "l_wait"  blocked at Shop.cpp:267, "l_woken" once woken     *)
(*             "done"    customer() has returned                           *)
(*   barber    "hello"   about to lock in helloCustomer (Shop.cpp:295)     *)
(*             "h_sleep" blocked at Shop.cpp:301, "h_wait" at Shop.cpp:306,*)
(*             "h_woken" once woken from either                            *)
(*             "cutting" helloCustomer has returned (driver.cpp:111)       *)
(*             "b_wait"  blocked at Shop.cpp:339, "b_woken" once woken     *)
(*             "cancelled" after main has ended                            *)
(*                                                                         *)
(* One step of a thread is a critical section: pthread_mutex_lock (or the   *)
(* re-acquisition at the end of pthread_cond_wait) followed by the code it *)
(* runs with mutex_ held, up to the next pthread_cond_wait or              *)
(* pthread_mutex_unlock.  mutex_ serialises these sections, so each is one *)
(* atomic action and mutex_ is free in every state of Spec.  A thread     *)
(* blocked in pthread_cond_wait is moved to a "woken" position by          *)
(* pthread_cond_signal (or by a spurious wake-up); its next critical       *)
(* section starts when it gets the mutex back, which may be after other    *)
(* threads have run theirs.  SpecLock runs the same sections with the      *)
(* acquisition of mutex_ as a step of its own, so that mutex_ is held in   *)
(* the states between the acquisition and the end of the section.          *)
(*                                                                         *)
(* sleeping_barbs_ (Shop.h:127) is written at Shop.cpp:239, 300 and 344    *)
(* and read nowhere; the model leaves it out.  The text Shop::print writes *)
(* is modelled only by the two counters haircut_starts and haircut_byes.   *)
(***************************************************************************)
EXTENDS Integers, FiniteSets, Sequences, TLC

\* ---------------------------------------------------------------- bounds
MaxBarbers   == 2   \* largest num_barbers argument explored
MaxChairs    == 2   \* largest num_chairs argument explored
MaxCustomers == 3   \* largest num_customers argument explored
MaxSpurious  == 1   \* spurious returns of pthread_cond_wait per run

\* ------------------------------------------------------- program constants
kDefaultNumChairs == 3
kDefaultBarbers   == 1

Unset    == -2      \* customer(): barbID before visitShop has returned

VARIABLES
    ctor_args,            \* driver.cpp:75   arguments the Shop is built from:
                          \*   << num_barbers, num_chairs >>, or << >> for Shop()
    max_waiting_cust_,    \* Shop.h:124
    max_working_barb_,    \* Shop.h:125
    waiting_customers_,   \* Shop.h:126
    cust_drops_,          \* Shop.h:128
    customer_in_chair_,   \* Shop.h:129  [barber -> customer id, 0 = empty]
    in_service_,          \* Shop.h:130  [barber -> BOOLEAN]
    money_paid_,          \* Shop.h:131  [barber -> BOOLEAN]
    num_customers,        \* driver.cpp:54
    cust_pc,              \* position of each customer thread
    barb_pc,              \* position of each barber thread
    barbID,               \* driver.cpp:124  customer's local barbID
    main_pc,              \* position of main
    reported,             \* driver.cpp:97   value printed by main
    haircut_starts,       \* Shop.cpp:309    "starts a hair-cut" lines per customer
    haircut_byes,         \* Shop.cpp:342    chairs cleared per occupant
    mutex_,               \* Shop.h:135      the thread that holds the mutex
    spurious              \* spurious wake-ups so far

vars == << ctor_args, max_waiting_cust_, max_working_barb_, waiting_customers_,
           cust_drops_, customer_in_chair_, in_service_,
           money_paid_, num_customers, cust_pc, barb_pc, barbID,
           main_pc, reported, haircut_starts, haircut_byes, spurious,
           mutex_ >>

shop_consts == << ctor_args, max_waiting_cust_, max_working_barb_, num_customers >>

Customers == 1..num_customers
Barbers   == 0..(max_working_barb_ - 1)

\* ----------------------------------------------------------------- threads
NoThread          == << "none", 0 >>       \* value of mutex_ when it is free
MainThread        == << "main", 0 >>       \* driver.cpp main
CustomerThread(c) == << "customer", c >>   \* driver.cpp customer, id c
BarberThread(b)   == << "barber", b >>     \* driver.cpp barber, id b

\* ------------------------------------------------------------ construction
\* Shop::Shop(int, int) member initialiser of max_waiting_cust_
CtorChairs(num_chairs)   == IF num_chairs >= 0 THEN num_chairs ELSE kDefaultNumChairs

\* Mutant of CtorBarbers: zero barbers are accepted
CtorBarbersNonNegative(num_barbers) == IF num_barbers >= 0 THEN num_barbers ELSE kDefaultBarbers

\* Shop::Shop(int, int) member initialiser of max_working_barb_
CtorBarbers(num_barbers) == IF num_barbers > 0 THEN num_barbers ELSE kDefaultBarbers

\* Shop::Shop(int, int) and Shop::Shop(): the two capacities built from args
ShopBarbers(args) == IF args = << >> THEN kDefaultBarbers ELSE CtorBarbers(args[1])
ShopChairs(args)  == IF args = << >> THEN kDefaultNumChairs ELSE CtorChairs(args[2])

\* The Shop as its constructor and init() leave it
NewShop(args) ==
    /\ ctor_args = args
    /\ max_working_barb_ = ShopBarbers(args)
    /\ max_waiting_cust_ = ShopChairs(args)
    /\ waiting_customers_ = 0
    /\ cust_drops_ = 0
    /\ customer_in_chair_ = [b \in Barbers |-> 0]
    /\ in_service_ = [b \in Barbers |-> FALSE]
    /\ money_paid_ = [b \in Barbers |-> FALSE]
    /\ mutex_ = NoThread

\* main(): the barber threads started and the customer threads created
StartThreads ==
    /\ num_customers \in 1..MaxCustomers
    /\ cust_pc = [c \in Customers |-> "visit"]
    /\ barb_pc = [b \in Barbers |-> "hello"]
    /\ barbID = [c \in Customers |-> Unset]
    /\ main_pc = "join"
    /\ reported = Unset
    /\ haircut_starts = [c \in Customers |-> 0]
    /\ haircut_byes = [c \in Customers |-> 0]
    /\ spurious = 0

\* main(): arguments that pass the driver's validation, the Shop built from
\* them, the barber threads started and the customer threads created.
Init ==
    /\ \E nb \in 1..MaxBarbers, nc \in 0..MaxChairs : NewShop(<< nb, nc >>)
    /\ StartThreads

\* Every way of constructing a Shop: Shop(), or Shop(num_barbers, num_chairs)
\* with arguments the constructor has to replace as well as ones it keeps
AnyCtorArgs == { << >> } \cup ((-1..MaxBarbers) \X (-1..MaxChairs))

\* A Shop constructed in any of these ways and then used as main() uses it
InitAnyShop ==
    /\ \E args \in AnyCtorArgs : NewShop(args)
    /\ StartThreads


\* ------------------------------------------------------ condition variables
\* pthread_cond_signal(&cond_barber_sleeping_[b]): barber b is the only
\* thread that ever waits on it (Shop.cpp:301, 306).
SignalBarberSleeping(b) ==
    IF barb_pc[b] \in {"h_sleep", "h_wait"}
    THEN barb_pc' = [barb_pc EXCEPT ![b] = "h_woken"]
    ELSE UNCHANGED barb_pc

\* pthread_cond_signal(&cond_barber_paid_[b]): barber b waits on it at
\* Shop.cpp:339.
SignalBarberPaid(b) ==
    IF barb_pc[b] = "b_wait"
    THEN barb_pc' = [barb_pc EXCEPT ![b] = "b_woken"]
    ELSE UNCHANGED barb_pc

\* pthread_cond_signal(&cond_customer_served_[b]): unblocks one of the
\* customers waiting at Shop.cpp:267 for barber b, if there is any.
ServedWaiters(b) == { c \in Customers : cust_pc[c] = "l_wait" /\ barbID[c] = b }

SignalCustomerServed(b) ==
    IF ServedWaiters(b) = {}
    THEN UNCHANGED cust_pc
    ELSE \E w \in ServedWaiters(b) : cust_pc' = [cust_pc EXCEPT ![w] = "l_woken"]

\* Mutant of SignalCustomersWaiting: the signal is lost
SignalCustomersWaitingLost == UNCHANGED cust_pc

\* pthread_cond_signal(&cond_customers_waiting_): unblocks one of the
\* customers waiting at Shop.cpp:193, if there is any.
SeatWaiters == { c \in Customers : cust_pc[c] = "v_wait" }

SignalCustomersWaiting ==
    IF SeatWaiters = {}
    THEN UNCHANGED cust_pc
    ELSE \E w \in SeatWaiters : cust_pc' = [cust_pc EXCEPT ![w] = "v_woken"]

\* ------------------------------------------------------------ assignBarber
\* Mutant of ChairIsEmpty: the test of the occupant is dropped
ChairIsEmptyAlways(b) == TRUE

\* Shop.cpp:237  the test that decides whether a chair may be taken
ChairIsEmpty(b) == customer_in_chair_[b] = 0

\* Mutant of assignBarberScan: the scan keeps the last empty chair it finds
RECURSIVE assignBarberScanLast(_)
assignBarberScanLast(b) ==
    IF b >= max_working_barb_ THEN -1
    ELSE IF assignBarberScanLast(b + 1) # -1 THEN assignBarberScanLast(b + 1)
    ELSE IF ChairIsEmpty(b) THEN b
    ELSE -1

\* Shop.cpp:235-244  the scan from barbID upwards; -1 if no chair is empty
RECURSIVE assignBarberScan(_)
assignBarberScan(b) ==
    IF b >= max_working_barb_ THEN -1
    ELSE IF ChairIsEmpty(b) THEN b
    ELSE assignBarberScan(b + 1)

\* Value returned by assignBarber(custID) in the current state
assignBarber == assignBarberScan(0)

\* ---------------------------------------------------------- visitShop
\* Mutant of WaitingFull: the shop counts as full one chair early
WaitingFullEarly == max_waiting_cust_ <= waiting_customers_ + 1

\* Mutant of WaitingFull: the full shop is never noticed
WaitingFullNever == FALSE

\* Mutant of WaitingFull: only an overfull shop counts as full
WaitingFullStrict == max_waiting_cust_ < waiting_customers_

\* Shop.cpp:177  all waiting chairs are taken
WaitingFull == max_waiting_cust_ = waiting_customers_

\* Mutant of DropNoServiceChair: the drop is not counted
DropNoServiceChairUncounted(c) ==
    /\ barbID' = [barbID EXCEPT ![c] = -1]
    /\ cust_pc' = [cust_pc EXCEPT ![c] = "done"]
    /\ UNCHANGED << cust_drops_, waiting_customers_, customer_in_chair_,
                    in_service_, barb_pc >>

\* Mutant of DropNoServiceChair: the customer waits for a service chair
DropNoServiceChairWaits(c) ==
    /\ waiting_customers_' = waiting_customers_ + 1
    /\ cust_pc' = [cust_pc EXCEPT ![c] = "v_wait"]
    /\ UNCHANGED << cust_drops_, customer_in_chair_,
                    in_service_, barb_pc, barbID >>

\* Shop.cpp:166-173  no waiting chairs and no empty service chair
DropNoServiceChair(c) ==
    /\ cust_drops_' = cust_drops_ + 1
    /\ barbID' = [barbID EXCEPT ![c] = -1]
    /\ cust_pc' = [cust_pc EXCEPT ![c] = "done"]
    /\ UNCHANGED << waiting_customers_, customer_in_chair_,
                    in_service_, barb_pc >>

\* Mutant of DropNoWaitingChair: the customer tries the service chairs first
DropNoWaitingChairTriesChairs(c) ==
    IF assignBarber = -1
    THEN /\ cust_drops_' = cust_drops_ + 1
         /\ barbID' = [barbID EXCEPT ![c] = -1]
         /\ cust_pc' = [cust_pc EXCEPT ![c] = "done"]
         /\ UNCHANGED << waiting_customers_, customer_in_chair_,
                         in_service_, barb_pc >>
    ELSE /\ customer_in_chair_' = [customer_in_chair_ EXCEPT ![assignBarber] = c]
         /\ in_service_' = [in_service_ EXCEPT ![assignBarber] = TRUE]
         /\ SignalBarberSleeping(assignBarber)
         /\ barbID' = [barbID EXCEPT ![c] = assignBarber]
         /\ cust_pc' = [cust_pc EXCEPT ![c] = "leave"]
         /\ UNCHANGED << cust_drops_, waiting_customers_ >>

\* Shop.cpp:177-184  every waiting chair is taken
DropNoWaitingChair(c) ==
    /\ cust_drops_' = cust_drops_ + 1
    /\ barbID' = [barbID EXCEPT ![c] = -1]
    /\ cust_pc' = [cust_pc EXCEPT ![c] = "done"]
    /\ UNCHANGED << waiting_customers_, customer_in_chair_,
                    in_service_, barb_pc >>

\* Mutant of TakeWaitingChair: the waiting chair taken is not counted
TakeWaitingChairUncounted(c) ==
    /\ cust_pc' = [cust_pc EXCEPT ![c] = "v_wait"]
    /\ UNCHANGED << waiting_customers_, cust_drops_, customer_in_chair_,
                    in_service_, barb_pc, barbID >>

\* Shop.cpp:188-193  take a waiting chair and wait on cond_customers_waiting_
TakeWaitingChair(c) ==
    /\ waiting_customers_' = waiting_customers_ + 1
    /\ cust_pc' = [cust_pc EXCEPT ![c] = "v_wait"]
    /\ UNCHANGED << cust_drops_, customer_in_chair_,
                    in_service_, barb_pc, barbID >>

\* Mutant of DropAfterWait: the drop is counted twice
DropAfterWaitTwice(c) ==
    /\ cust_drops_' = cust_drops_ + 2
    /\ waiting_customers_' = waiting_customers_ - 1
    /\ barbID' = [barbID EXCEPT ![c] = -1]
    /\ cust_pc' = [cust_pc EXCEPT ![c] = "done"]
    /\ UNCHANGED << customer_in_chair_, in_service_, barb_pc >>

\* Mutant of DropAfterWait: the customer goes back to waiting
DropAfterWaitAgain(c) ==
    /\ cust_pc' = [cust_pc EXCEPT ![c] = "v_wait"]
    /\ UNCHANGED << cust_drops_, waiting_customers_, customer_in_chair_,
                    in_service_, barb_pc, barbID >>

\* Mutant of DropAfterWait: the drop is not counted
DropAfterWaitUncounted(c) ==
    /\ waiting_customers_' = waiting_customers_ - 1
    /\ barbID' = [barbID EXCEPT ![c] = -1]
    /\ cust_pc' = [cust_pc EXCEPT ![c] = "done"]
    /\ UNCHANGED << cust_drops_, customer_in_chair_, in_service_, barb_pc >>

\* Mutant of DropAfterWait: the dropped customer keeps his waiting chair
DropAfterWaitKeepsSeat(c) ==
    /\ cust_drops_' = cust_drops_ + 1
    /\ barbID' = [barbID EXCEPT ![c] = -1]
    /\ cust_pc' = [cust_pc EXCEPT ![c] = "done"]
    /\ UNCHANGED << waiting_customers_, customer_in_chair_, in_service_, barb_pc >>

\* Shop.cpp:196-204  the retry after the wait found no empty chair
DropAfterWait(c) ==
    /\ cust_drops_' = cust_drops_ + 1
    /\ waiting_customers_' = waiting_customers_ - 1
    /\ barbID' = [barbID EXCEPT ![c] = -1]
    /\ cust_pc' = [cust_pc EXCEPT ![c] = "done"]
    /\ UNCHANGED << customer_in_chair_, in_service_, barb_pc >>

\* Mutant of MoveToServiceChair: every barber is marked as in service
MoveToServiceChairMarksAll(c, b, fromWaiting) ==
    /\ customer_in_chair_' = [customer_in_chair_ EXCEPT ![b] = c]
    /\ waiting_customers_' = IF fromWaiting THEN waiting_customers_ - 1
                                            ELSE waiting_customers_
    /\ in_service_' = [i \in Barbers |-> TRUE]
    /\ SignalBarberSleeping(b)
    /\ barbID' = [barbID EXCEPT ![c] = b]
    /\ cust_pc' = [cust_pc EXCEPT ![c] = "leave"]
    /\ UNCHANGED cust_drops_

\* Shop.cpp:238-239 (the assignment assignBarber made), 205 (when the
\* customer held a waiting chair) and 208-219
MoveToServiceChair(c, b, fromWaiting) ==
    /\ customer_in_chair_' = [customer_in_chair_ EXCEPT ![b] = c]
    /\ waiting_customers_' = IF fromWaiting THEN waiting_customers_ - 1
                                           ELSE waiting_customers_
    /\ in_service_' = [in_service_ EXCEPT ![b] = TRUE]
    /\ SignalBarberSleeping(b)
    /\ barbID' = [barbID EXCEPT ![c] = b]
    /\ cust_pc' = [cust_pc EXCEPT ![c] = "leave"]
    /\ UNCHANGED cust_drops_

\* driver.cpp:82-86  main creates the customer threads in id order.  They
\* all run the same code and differ only in their id, so a run in which they
\* enter visitShop in another order is a renaming of one in which they enter
\* in the order of creation: only those runs are explored.
EarlierCustomersEntered(c) ==
    \A d \in Customers : d < c => cust_pc[d] # "visit"

\* Shop.cpp:161-219  from the lock to the wait at line 193 or to a return
Visit(c) ==
    /\ cust_pc[c] = "visit"
    /\ EarlierCustomersEntered(c)
    /\ IF max_waiting_cust_ = 0
       THEN IF assignBarber = -1
            THEN DropNoServiceChair(c)
            ELSE MoveToServiceChair(c, assignBarber, FALSE)
       ELSE IF WaitingFull
            THEN DropNoWaitingChair(c)
            ELSE IF assignBarber = -1
                 THEN TakeWaitingChair(c)
                 ELSE MoveToServiceChair(c, assignBarber, FALSE)
    /\ UNCHANGED << shop_consts, money_paid_, main_pc, reported,
                    haircut_starts, haircut_byes, spurious >>

\* Shop.cpp:193-219  the mutex is taken again after the wake-up, then the
\* single retry
VisitResume(c) ==
    /\ cust_pc[c] = "v_woken"
    /\ IF assignBarber = -1
       THEN DropAfterWait(c)
       ELSE MoveToServiceChair(c, assignBarber, TRUE)
    /\ UNCHANGED << shop_consts, money_paid_, main_pc, reported,
                    haircut_starts, haircut_byes, spurious >>

\* ---------------------------------------------------------- leaveShop
\* Shop.cpp:266-277  the loop test, then the wait at 267 or the payment
LeaveCheckService(c) ==
    IF in_service_[barbID[c]]
    THEN /\ cust_pc' = [cust_pc EXCEPT ![c] = "l_wait"]
         /\ UNCHANGED << money_paid_, barb_pc >>
    ELSE /\ money_paid_' = [money_paid_ EXCEPT ![barbID[c]] = TRUE]
         /\ SignalBarberPaid(barbID[c])
         /\ cust_pc' = [cust_pc EXCEPT ![c] = "done"]

\* Mutant of Leave: the customer who pays clears his chair himself
LeaveClearsChair(c) ==
    /\ cust_pc[c] = "leave"
    /\ LeaveCheckService(c)
    /\ customer_in_chair_' = IF in_service_[barbID[c]]
                             THEN customer_in_chair_
                             ELSE [customer_in_chair_ EXCEPT ![barbID[c]] = 0]
    /\ UNCHANGED << shop_consts, waiting_customers_, cust_drops_,
                    in_service_, barbID, main_pc, reported,
                    haircut_starts, haircut_byes, spurious >>

\* Shop.cpp:260-277  from the lock to the wait at line 267 or to the return
Leave(c) ==
    /\ cust_pc[c] = "leave"
    /\ LeaveCheckService(c)
    /\ UNCHANGED << shop_consts, waiting_customers_, cust_drops_,
                    customer_in_chair_, in_service_, barbID, main_pc, reported,
                    haircut_starts, haircut_byes, spurious >>

\* Shop.cpp:266-277  the mutex is taken again after the wake-up, then the
\* loop test again
LeaveResume(c) ==
    /\ cust_pc[c] = "l_woken"
    /\ LeaveCheckService(c)
    /\ UNCHANGED << shop_consts, waiting_customers_, cust_drops_,
                    customer_in_chair_, in_service_, barbID, main_pc, reported,
                    haircut_starts, haircut_byes, spurious >>

\* ---------------------------------------------------------- helloCustomer
\* Shop.cpp:298  nobody to serve: the barber may sleep
NoCustomers(b) == waiting_customers_ = 0 /\ customer_in_chair_[b] = 0

\* Mutant of ChairStillEmpty: the barber does not look at the chair
ChairStillEmptyNever(b) == FALSE

\* Shop.cpp:304  the loop test: nobody sat down in chair b yet
ChairStillEmpty(b) == customer_in_chair_[b] = 0

\* Shop.cpp:304-313  the loop test, then the wait at 306 or the start of the
\* haircut and the return
HelloCheckChair(b) ==
    IF ChairStillEmpty(b)
    THEN /\ barb_pc' = [barb_pc EXCEPT ![b] = "h_wait"]
         /\ UNCHANGED haircut_starts
    ELSE /\ barb_pc' = [barb_pc EXCEPT ![b] = "cutting"]
         /\ haircut_starts' =
               IF customer_in_chair_[b] \in Customers
               THEN [haircut_starts EXCEPT ![customer_in_chair_[b]] = @ + 1]
               ELSE haircut_starts

\* Shop.cpp:295-313  from the lock to the wait at 301 or 306, or to the return
Hello(b) ==
    /\ barb_pc[b] = "hello"
    /\ IF NoCustomers(b)
       THEN /\ barb_pc' = [barb_pc EXCEPT ![b] = "h_sleep"]
            /\ UNCHANGED haircut_starts
       ELSE HelloCheckChair(b)
    /\ UNCHANGED << shop_consts, waiting_customers_, cust_drops_,
                    customer_in_chair_, in_service_, money_paid_, cust_pc, barbID,
                    main_pc, reported, haircut_byes, spurious >>

\* Shop.cpp:301-313  the mutex is taken again after the wake-up (from the
\* wait at 301 or at 306), then the loop test
HelloResume(b) ==
    /\ barb_pc[b] = "h_woken"
    /\ HelloCheckChair(b)
    /\ UNCHANGED << shop_consts, waiting_customers_, cust_drops_,
                    customer_in_chair_, in_service_, money_paid_, cust_pc, barbID,
                    main_pc, reported, haircut_byes, spurious >>

\* ---------------------------------------------------------- byeCustomer
\* Mutant of Bye: in_service_ is not reset
ByeKeepsInService(b) ==
    /\ barb_pc[b] = "cutting"
    /\ money_paid_' = [money_paid_ EXCEPT ![b] = FALSE]
    /\ SignalCustomerServed(b)
    /\ barb_pc' = [barb_pc EXCEPT ![b] = "b_wait"]
    /\ UNCHANGED << shop_consts, waiting_customers_, cust_drops_,
                    customer_in_chair_, in_service_, barbID, main_pc, reported,
                    haircut_starts, haircut_byes, spurious >>

\* driver.cpp:111-112, Shop.cpp:329-339  the haircut is over: announce it,
\* then wait for the payment
Bye(b) ==
    /\ barb_pc[b] = "cutting"
    /\ in_service_' = [in_service_ EXCEPT ![b] = FALSE]
    /\ money_paid_' = [money_paid_ EXCEPT ![b] = FALSE]
    /\ SignalCustomerServed(b)
    /\ barb_pc' = [barb_pc EXCEPT ![b] = "b_wait"]
    /\ UNCHANGED << shop_consts, waiting_customers_, cust_drops_,
                    customer_in_chair_, barbID, main_pc, reported,
                    haircut_starts, haircut_byes, spurious >>

\* Mutant of ByeResume: the chair is not cleared
ByeResumeKeepsChair(b) ==
    /\ barb_pc[b] = "b_woken"
    /\ haircut_byes' =
          IF customer_in_chair_[b] \in Customers
          THEN [haircut_byes EXCEPT ![customer_in_chair_[b]] = @ + 1]
          ELSE haircut_byes
    /\ SignalCustomersWaiting
    /\ barb_pc' = [barb_pc EXCEPT ![b] = "hello"]
    /\ UNCHANGED << shop_consts, waiting_customers_, cust_drops_,
                    customer_in_chair_, in_service_, money_paid_, barbID,
                    main_pc, reported, haircut_starts, spurious >>

\* Mutant of ByeResume: the freed chair is not announced
ByeResumeSilent(b) ==
    /\ barb_pc[b] = "b_woken"
    /\ customer_in_chair_' = [customer_in_chair_ EXCEPT ![b] = 0]
    /\ haircut_byes' = IF customer_in_chair_[b] \in Customers
                       THEN [haircut_byes EXCEPT ![customer_in_chair_[b]] = @ + 1]
                       ELSE haircut_byes
    /\ barb_pc' = [barb_pc EXCEPT ![b] = "hello"]
    /\ UNCHANGED << shop_consts, waiting_customers_, cust_drops_, in_service_,
                    money_paid_, cust_pc, barbID, main_pc, reported,
                    haircut_starts, spurious >>

\* Shop.cpp:339-347  the mutex is taken again after the wake-up; clear the
\* chair, call in another customer, return
ByeResume(b) ==
    /\ barb_pc[b] = "b_woken"
    /\ customer_in_chair_' = [customer_in_chair_ EXCEPT ![b] = 0]
    /\ haircut_byes' =
          IF customer_in_chair_[b] \in Customers
          THEN [haircut_byes EXCEPT ![customer_in_chair_[b]] = @ + 1]
          ELSE haircut_byes
    /\ SignalCustomersWaiting
    /\ barb_pc' = [barb_pc EXCEPT ![b] = "hello"]
    /\ UNCHANGED << shop_consts, waiting_customers_, cust_drops_, in_service_,
                    money_paid_, barbID, main_pc, reported, haircut_starts,
                    spurious >>

\* ------------------------------------------------------------------- main
\* driver.cpp:88-98  every customer thread is joined; the barbers are
\* cancelled, the drop count is read and printed, and the process ends.
MainExit ==
    /\ main_pc = "join"
    /\ \A c \in Customers : cust_pc[c] = "done"
    /\ main_pc' = "exited"
    /\ barb_pc' = [b \in Barbers |-> "cancelled"]
    /\ reported' = cust_drops_
    /\ UNCHANGED << shop_consts, waiting_customers_, cust_drops_,
                    customer_in_chair_, in_service_, money_paid_, cust_pc,
                    barbID, haircut_starts, haircut_byes, spurious >>

\* ------------------------------------------------------- spurious wake-ups
\* pthread_cond_wait may return without a signal, and pthread_cond_signal
\* may unblock more than one waiter; either way a blocked thread becomes
\* woken without a signal of its own and then takes the mutex again like a
\* signalled one.  At most MaxSpurious such wake-ups happen in a run.
SpuriousWakeCustomer(c) ==
    /\ spurious < MaxSpurious
    /\ cust_pc[c] \in {"v_wait", "l_wait"}
    /\ cust_pc' = [cust_pc EXCEPT ![c] = IF cust_pc[c] = "v_wait" THEN "v_woken"
                                                                 ELSE "l_woken"]
    /\ spurious' = spurious + 1
    /\ UNCHANGED << shop_consts, waiting_customers_, cust_drops_,
                    customer_in_chair_, in_service_, money_paid_, barb_pc,
                    barbID, main_pc, reported, haircut_starts, haircut_byes >>

SpuriousWakeBarber(b) ==
    /\ spurious < MaxSpurious
    /\ barb_pc[b] \in {"h_sleep", "h_wait", "b_wait"}
    /\ barb_pc' = [barb_pc EXCEPT ![b] = IF barb_pc[b] = "b_wait" THEN "b_woken"
                                                                 ELSE "h_woken"]
    /\ spurious' = spurious + 1
    /\ UNCHANGED << shop_consts, waiting_customers_, cust_drops_,
                    customer_in_chair_, in_service_, money_paid_, cust_pc,
                    barbID, main_pc, reported, haircut_starts, haircut_byes >>

\* ---------------------------------------------------------- specifications
CustomerStep(c) ==
    \/ Visit(c)
    \/ VisitResume(c)
    \/ Leave(c)
    \/ LeaveResume(c)

BarberStep(b) ==
    \/ Hello(b)
    \/ HelloResume(b)
    \/ Bye(b)
    \/ ByeResume(b)

\* A critical section as one step: mutex_ is taken (pthread_mutex_lock, or
\* the return of pthread_cond_wait), Section runs, and mutex_ is given back
\* (pthread_mutex_unlock, or the start of the next pthread_cond_wait)
Atomically(Section) == mutex_ = NoThread /\ Section /\ UNCHANGED mutex_

\* A step of a thread that is outside the critical sections
Unlocked(Step) == Step /\ UNCHANGED mutex_

\* The program when pthread_cond_wait never returns without a signal
NextNoSpurious ==
    \/ \E c \in Customers : Atomically(Visit(c))
    \/ \E c \in Customers : Atomically(VisitResume(c))
    \/ \E c \in Customers : Atomically(Leave(c))
    \/ \E c \in Customers : Atomically(LeaveResume(c))
    \/ \E b \in Barbers : Atomically(Hello(b))
    \/ \E b \in Barbers : Atomically(HelloResume(b))
    \/ \E b \in Barbers : Atomically(Bye(b))
    \/ \E b \in Barbers : Atomically(ByeResume(b))
    \/ Unlocked(MainExit)

\* The program as POSIX allows it to run
Next ==
    \/ \E c \in Customers : Atomically(Visit(c))
    \/ \E c \in Customers : Atomically(VisitResume(c))
    \/ \E c \in Customers : Atomically(Leave(c))
    \/ \E c \in Customers : Atomically(LeaveResume(c))
    \/ \E b \in Barbers : Atomically(Hello(b))
    \/ \E b \in Barbers : Atomically(HelloResume(b))
    \/ \E b \in Barbers : Atomically(Bye(b))
    \/ \E b \in Barbers : Atomically(ByeResume(b))
    \/ Unlocked(MainExit)
    \/ \E c \in Customers : Unlocked(SpuriousWakeCustomer(c))
    \/ \E b \in Barbers : Unlocked(SpuriousWakeBarber(b))

\* Every thread that can take a step eventually takes one
Fairness ==
    /\ \A c \in 1..MaxCustomers :
          WF_vars(c \in Customers /\ Atomically(CustomerStep(c)))
    /\ \A b \in 0..(MaxBarbers - 1) :
          WF_vars(b \in Barbers /\ Atomically(BarberStep(b)))
    /\ WF_vars(Unlocked(MainExit))

\* ------------------------------------------------- the mutex, step by step
\* Customer c is about to call pthread_mutex_lock (Shop.cpp:161, 260) or to
\* get mutex_ back at the end of pthread_cond_wait (Shop.cpp:193, 267)
CustomerNeedsMutex(c) ==
    \/ cust_pc[c] = "visit" /\ EarlierCustomersEntered(c)
    \/ cust_pc[c] \in {"v_woken", "leave", "l_woken"}

\* Barber b is about to call pthread_mutex_lock (Shop.cpp:295, 329) or to
\* get mutex_ back at the end of pthread_cond_wait (Shop.cpp:301, 306, 339)
BarberNeedsMutex(b) == barb_pc[b] \in {"hello", "h_woken", "cutting", "b_woken"}

\* Thread t gets mutex_, which was free
Lock(t) ==
    /\ mutex_ = NoThread
    /\ mutex_' = t
    /\ UNCHANGED << shop_consts, waiting_customers_, cust_drops_,
                    customer_in_chair_, in_service_, money_paid_, cust_pc,
                    barb_pc, barbID, main_pc, reported, haircut_starts,
                    haircut_byes, spurious >>

\* Thread t, holding mutex_, runs Section up to its pthread_mutex_unlock or
\* its next pthread_cond_wait, either of which gives mutex_ back
Locked(t, Section) == mutex_ = t /\ Section /\ mutex_' = NoThread

\* The program with the acquisition of mutex_ as a step of its own.  main
\* calls get_cust_drops (driver.cpp:97), which has no pthread_mutex_lock
\* (Shop.cpp:354-357), so MainExit neither needs nor takes mutex_.
NextLock ==
    \/ \E c \in Customers : CustomerNeedsMutex(c) /\ Lock(CustomerThread(c))
    \/ \E b \in Barbers : BarberNeedsMutex(b) /\ Lock(BarberThread(b))
    \/ \E c \in Customers : Locked(CustomerThread(c), Visit(c))
    \/ \E c \in Customers : Locked(CustomerThread(c), VisitResume(c))
    \/ \E c \in Customers : Locked(CustomerThread(c), Leave(c))
    \/ \E c \in Customers : Locked(CustomerThread(c), LeaveResume(c))
    \/ \E b \in Barbers : Locked(BarberThread(b), Hello(b))
    \/ \E b \in Barbers : Locked(BarberThread(b), HelloResume(b))
    \/ \E b \in Barbers : Locked(BarberThread(b), Bye(b))
    \/ \E b \in Barbers : Locked(BarberThread(b), ByeResume(b))
    \/ Unlocked(MainExit)

Spec == Init /\ [][Next]_vars
SpecNoSpurious == Init /\ [][NextNoSpurious]_vars
FairSpec == Spec /\ Fairness
FairNoSpurious == SpecNoSpurious /\ Fairness
SpecAnyShop == InitAnyShop /\ [][NextNoSpurious]_vars
SpecLock == Init /\ [][NextLock]_vars


\* ================================================================= claims
OccupiedChairs == { b \in Barbers : customer_in_chair_[b] # 0 }

\* C1  Exclusivity of service chairs: no customer is the occupant of two
\* chairs at once, and an occupied chair never takes another occupant: its
\* value only ever changes to 0 (assignBarber writes custID only where the
\* value is 0).
C1_ExclusiveChairs ==
    /\ [](\A b1, b2 \in Barbers :
             (b1 # b2 /\ customer_in_chair_[b1] # 0)
                => customer_in_chair_[b1] # customer_in_chair_[b2])
    /\ [][\A b \in Barbers :
             (customer_in_chair_[b] # 0
                /\ customer_in_chair_'[b] # customer_in_chair_[b])
                => customer_in_chair_'[b] = 0]_vars

\* C1 witness: two chairs hold two customers and a third customer, for whom
\* assignBarber found no empty chair, waits.
C1_Witness ==
    /\ Cardinality(OccupiedChairs) >= 2
    /\ \E c \in Customers : cust_pc[c] = "v_wait"

\* C2  Capacity: 0 <= waiting_customers_ <= max_waiting_cust_ and the number
\* of occupied service chairs is at most max_working_barb_ (mutex_ is free
\* in every state of the model).
C2_Capacity ==
    /\ 0 <= waiting_customers_
    /\ waiting_customers_ <= max_waiting_cust_
    /\ Cardinality(OccupiedChairs) <= max_working_barb_

\* C2 witness: every waiting chair and every service chair is taken.
C2_Witness ==
    /\ max_waiting_cust_ > 0
    /\ waiting_customers_ = max_waiting_cust_
    /\ Cardinality(OccupiedChairs) = max_working_barb_


AllCustomersDone == \A c \in Customers : cust_pc[c] = "done"

\* Customers whose visitShop returned -1
Dropped == { c \in Customers : barbID[c] = -1 }

\* Customers whose visitShop returned a slot and whose leaveShop returned
Served == { c \in Customers : barbID[c] >= 0 /\ cust_pc[c] = "done" }

\* C3  No lost wake-ups (no spurious wake-ups, every thread weakly fair):
\* every customer thread terminates, so every visitShop call and every
\* leaveShop call returns, and a barber blocked on cond_barber_paid_ in
\* byeCustomer is eventually woken.
C3_NoLostWakeups ==
    /\ <>AllCustomersDone
    /\ \A b \in 0..(MaxBarbers - 1) :
          (b \in Barbers /\ barb_pc[b] = "b_wait")
             ~> (b \in Barbers /\ barb_pc[b] = "b_woken")

\* C3 witness: one barber has served every customer of the largest run, one
\* after the other, and all customer threads have ended.
C3_Witness ==
    /\ AllCustomersDone
    /\ max_working_barb_ = 1
    /\ num_customers = MaxCustomers
    /\ \A c \in Customers : haircut_byes[c] = 1

\* C4  Drop accounting: cust_drops_ never decreases; the step in which a
\* visitShop call returns adds one to it if the call returns -1 and leaves
\* it unchanged if the call returns a slot; so cust_drops_ always equals the
\* number of visitShop calls that have returned -1.
C4_DropAccounting ==
    /\ [](cust_drops_ = Cardinality(Dropped))
    /\ [][cust_drops_' >= cust_drops_]_vars
    /\ [][\A c \in Customers :
             (barbID[c] = Unset /\ barbID'[c] # Unset)
                => cust_drops_' = cust_drops_ + (IF barbID'[c] = -1 THEN 1 ELSE 0)]_vars

\* C4 witness: two calls have returned -1 and one has returned a slot.
C4_Witness ==
    /\ cust_drops_ = 2
    /\ \E c \in Customers : barbID[c] >= 0

\* C5  Round trip: once every customer thread has finished, the customers
\* served plus cust_drops_ is num_customers, and main prints that count.
C5_RoundTrip ==
    /\ AllCustomersDone => Cardinality(Served) + cust_drops_ = num_customers
    /\ main_pc = "exited" => Cardinality(Served) + reported = num_customers

\* C5 witness: a finished run with customers served and customers dropped.
C5_Witness ==
    /\ main_pc = "exited"
    /\ Cardinality(Served) >= 1
    /\ cust_drops_ >= 1
    /\ Cardinality(Served) + cust_drops_ = MaxCustomers

\* C6  Payment before chair release: byeCustomer(b) clears
\* customer_in_chair_[b] only in a state where money_paid_[b] is true,
\* spurious wake-ups included.
C6_PaidBeforeRelease ==
    [][\A b \in Barbers :
          (customer_in_chair_[b] # 0 /\ customer_in_chair_'[b] = 0)
             => money_paid_[b]]_vars

\* C7  No customer is served twice: for every customer at most one haircut
\* is started and at most one byeCustomer completes with that customer in
\* the chair; a customer who was given a slot and whose leaveShop has
\* returned had exactly one haircut started.
C7_ServedOnce ==
    /\ \A c \in Customers : haircut_starts[c] <= 1 /\ haircut_byes[c] <= 1
    /\ \A c \in Served : haircut_starts[c] = 1

\* C7 witness: two customers were served in turn by the same barber.
C7_Witness ==
    \E c1, c2 \in Served :
       /\ c1 # c2
       /\ barbID[c1] = barbID[c2]
       /\ haircut_byes[c1] = 1
       /\ haircut_byes[c2] = 1

\* C8  Pairing: while in_service_[s] is true the chair has an occupant and
\* the occupant does not change; slot s gets another customer only after
\* byeCustomer(s) has set in_service_[s] back to false.
C8_Pairing ==
    /\ [](\A b \in Barbers : in_service_[b] => customer_in_chair_[b] # 0)
    /\ [][\A b \in Barbers :
             in_service_[b] => customer_in_chair_'[b] = customer_in_chair_[b]]_vars

\* C8 witness: a slot is in service for a customer after an earlier customer
\* went through the same slot.
C8_Witness ==
    \E b \in Barbers, c \in Customers :
       /\ in_service_[b]
       /\ customer_in_chair_[b] # 0
       /\ customer_in_chair_[b] # c
       /\ barbID[c] = b
       /\ haircut_byes[c] = 1

C10_SleepWake ==
    /\ [](\A b \in Barbers :
             barb_pc[b] = "cutting" => (customer_in_chair_[b] # 0 /\ in_service_[b]))
    /\ \A b \in 0..(MaxBarbers - 1), c \in 1..MaxCustomers :
          (b \in Barbers /\ customer_in_chair_[b] = c /\ in_service_[b])
             ~> (b \in Barbers /\ barb_pc[b] = "cutting"
                   /\ customer_in_chair_[b] = c /\ in_service_[b])

\* C10 witness: after a spurious wake-up, a barber who slept has returned
\* from helloCustomer with a customer in the chair.
C10_Witness ==
    /\ spurious > 0
    /\ \E b \in Barbers :
          /\ barb_pc[b] = "cutting"
          /\ customer_in_chair_[b] # 0
          /\ in_service_[b]

\* Barbers blocked in helloCustomer (Shop.cpp:301 or 306) on an empty chair
IdleBarbers ==
    { b \in Barbers : barb_pc[b] \in {"h_sleep", "h_wait"}
                        /\ customer_in_chair_[b] = 0 }

\* Waiting customers whose wait at Shop.cpp:193 has been ended but who have
\* not yet run again
WokenWaiters == { c \in Customers : cust_pc[c] = "v_woken" }

\* C11  No barber sleeps while a customer is waiting and wakeable: there is
\* no state in which a barber is blocked in helloCustomer on an empty chair
\* while a customer is blocked on cond_customers_waiting_ in a waiting chair
\* and no waiting customer has been woken without having resumed yet.
C11_NoIdleBarberWithWaiter ==
    ~ (IdleBarbers # {} /\ SeatWaiters # {} /\ WokenWaiters = {})

\* C11 witness: a barber is blocked on his empty chair while one customer
\* still waits in a waiting chair; the wake-up sent for the freed chair is
\* under way to another waiting customer.
C11_Witness ==
    /\ IdleBarbers # {}
    /\ SeatWaiters # {}
    /\ WokenWaiters # {}
    /\ spurious = 0

\* Customer c is at the start of visitShop and finds every waiting chair of a
\* shop that has waiting chairs taken (Shop.cpp:163, 177)
EntersFullShop(c) ==
    /\ cust_pc[c] = "visit"
    /\ max_waiting_cust_ > 0
    /\ waiting_customers_ = max_waiting_cust_

EmptyChairs == { b \in Barbers : customer_in_chair_[b] = 0 }

\* C13  Zero waiting seats: in a shop built with no waiting chairs nobody ever
\* blocks in visitShop and waiting_customers_ stays 0; a call returns a slot,
\* now holding the caller, exactly when some service chair is empty as the
\* caller gets the lock, and otherwise returns -1 with exactly one drop.
C13_ZeroWaitingSeats ==
    /\ [](max_waiting_cust_ = 0
             => /\ waiting_customers_ = 0
                /\ \A c \in Customers : cust_pc[c] \notin {"v_wait", "v_woken"})
    /\ [][\A c \in Customers :
             (max_waiting_cust_ = 0 /\ cust_pc[c] = "visit" /\ cust_pc'[c] # "visit")
                => IF EmptyChairs # {}
                   THEN /\ barbID'[c] \in EmptyChairs
                        /\ customer_in_chair_'[barbID'[c]] = c
                        /\ cust_pc'[c] = "leave"
                        /\ cust_drops_' = cust_drops_
                   ELSE /\ barbID'[c] = -1
                        /\ cust_pc'[c] = "done"
                        /\ cust_drops_' = cust_drops_ + 1
                        /\ customer_in_chair_' = customer_in_chair_]_vars

\* C13 witness: one barber, no waiting chairs, two customers: one of them
\* sits in the chair, still unfinished, and the other has been turned away.
C13_Witness ==
    /\ max_waiting_cust_ = 0
    /\ max_working_barb_ = 1
    /\ num_customers = 2
    /\ cust_drops_ = 1
    /\ \E c, d \in Customers :
          /\ customer_in_chair_[0] = c
          /\ haircut_byes[c] = 0
          /\ barbID[c] = 0
          /\ barbID[d] = -1

\* The shop has one barber and one waiting chair
ShopOneOne == max_working_barb_ = 1 /\ max_waiting_cust_ = 1

\* C14  Seat then chair in Shop(1,1), when waits end only by a signal: a
\* customer blocked in the waiting chair behind the customer in the service
\* chair is woken once byeCustomer has cleared the chair, his visitShop
\* returns slot 0 and not -1, and waiting_customers_ is back at 0 as he takes
\* the chair, whatever other customers call visitShop in the meantime.
C14_SeatThenChair ==
    /\ [][\A c \in Customers :
             (ShopOneOne /\ cust_pc[c] = "v_woken" /\ cust_pc'[c] # "v_woken")
                => /\ barbID'[c] = 0
                   /\ customer_in_chair_'[0] = c
                   /\ waiting_customers_' = 0]_vars
    /\ \A c \in 1..MaxCustomers :
          (ShopOneOne /\ c \in Customers /\ cust_pc[c] = "v_wait")
             ~> (c \in Customers /\ barbID[c] = 0)

\* C14 witness: in Shop(1,1) with three customers, one has been served, one
\* was turned away while the waiting chair was taken, and the one who had
\* taken the waiting chair now sits in chair 0 with the waiting chair free.
C14_Witness ==
    /\ ShopOneOne
    /\ num_customers = 3
    /\ waiting_customers_ = 0
    /\ cust_drops_ = 1
    /\ \E c, d \in Customers :
          /\ haircut_byes[d] = 1
          /\ customer_in_chair_[0] = c
          /\ barbID[c] = 0
          /\ haircut_starts[c] = 0

\* C15  In-service implies occupied: in every state in which no thread is
\* inside a critical section, a slot marked as in service has an occupant:
\* in_service_[i] implies customer_in_chair_[i] # 0.
C15_InServiceOccupied ==
    \A i \in Barbers : in_service_[i] => customer_in_chair_[i] # 0

\* C15 witness: one slot is in service with its occupant while another slot
\* is occupied but no longer in service, its barber waiting to be paid.
C15_Witness ==
    \E i, j \in Barbers :
        /\ in_service_[i] /\ customer_in_chair_[i] # 0
        /\ ~ in_service_[j] /\ customer_in_chair_[j] # 0
        /\ barb_pc[j] = "b_wait"

\* No thread has taken a step since the Shop was constructed
Fresh ==
    /\ \A c \in Customers : cust_pc[c] = "visit"
    /\ \A b \in Barbers : barb_pc[b] = "hello"

\* C16  Constructor defaults: Shop(num_barbers, num_chairs) keeps num_barbers
\* when it is positive and uses 1 otherwise, keeps num_chairs when it is not
\* negative (0 stays 0) and uses 3 otherwise; Shop() uses 1 and 3.  The new
\* Shop has every slot empty, not in service and not paid, nobody waiting
\* and no drops.
C16_CtorDefaults ==
    /\ ctor_args = << >> => (max_working_barb_ = 1 /\ max_waiting_cust_ = 3)
    /\ ctor_args # << >> =>
          /\ ctor_args[1] >= 1 => max_working_barb_ = ctor_args[1]
          /\ ctor_args[1] <= 0 => max_working_barb_ = 1
          /\ ctor_args[2] >= 0 => max_waiting_cust_ = ctor_args[2]
          /\ ctor_args[2] < 0 => max_waiting_cust_ = 3
    /\ Fresh =>
          /\ DOMAIN customer_in_chair_ = 0..(max_working_barb_ - 1)
          /\ \A b \in Barbers :
                customer_in_chair_[b] = 0 /\ ~ in_service_[b] /\ ~ money_paid_[b]
          /\ waiting_customers_ = 0
          /\ cust_drops_ = 0

\* C16 witness: a Shop just built from arguments the constructor replaces,
\* no barbers and a negative number of chairs.
C16_Witness ==
    /\ Fresh
    /\ ctor_args = << 0, -1 >>
    /\ max_working_barb_ = 1
    /\ max_waiting_cust_ = 3

\* Customer c has been admitted to a slot
Admitted(c) == barbID[c] \in Barbers

\* C17  Per-haircut ordering: for every customer c admitted to slot s the
\* steps come in this order: visitShop seats c and sets in_service_[s];
\* helloCustomer(s) returns with occupant c; byeCustomer resets
\* in_service_[s]; leaveShop sets money_paid_[s]; byeCustomer clears the
\* chair.  So leaveShop never pays while in_service_[s] is true or for a
\* haircut the barber has not finished for c, and the chair is not cleared
\* before c has paid.
C17_HaircutOrder ==
    [][\A c \in Customers :
          \* visitShop seats c: nothing of the haircut has happened yet
          /\ (~ Admitted(c) /\ Admitted(c)')
                => /\ customer_in_chair_'[barbID'[c]] = c
                   /\ in_service_'[barbID'[c]]
                   /\ haircut_starts[c] = 0 /\ haircut_byes[c] = 0
          \* helloCustomer returns with occupant c: c is seated and in service
          /\ haircut_starts'[c] # haircut_starts[c]
                => /\ Admitted(c)
                   /\ customer_in_chair_[barbID[c]] = c
                   /\ in_service_[barbID[c]]
                   /\ haircut_starts[c] = 0 /\ haircut_byes[c] = 0
                   /\ cust_pc[c] # "done"
          \* byeCustomer ends the service of c: the haircut had started
          /\ (Admitted(c) /\ customer_in_chair_[barbID[c]] = c
                /\ in_service_[barbID[c]] /\ ~ in_service_'[barbID[c]])
                => /\ haircut_starts[c] = 1 /\ haircut_byes[c] = 0
                   /\ cust_pc[c] # "done"
          \* leaveShop pays: the service of c is over, c is still in the chair
          /\ (Admitted(c) /\ cust_pc[c] # "done" /\ cust_pc'[c] = "done")
                => /\ ~ in_service_[barbID[c]]
                   /\ customer_in_chair_[barbID[c]] = c
                   /\ haircut_starts[c] = 1 /\ haircut_byes[c] = 0
                   /\ money_paid_'[barbID[c]]
          \* byeCustomer clears the chair of c: c has paid
          /\ haircut_byes'[c] # haircut_byes[c]
                => /\ Admitted(c)
                   /\ cust_pc[c] = "done"
                   /\ money_paid_[barbID[c]]
                   /\ haircut_byes[c] = 0]_vars

\* The shared fields of the Shop
SharedFields == << waiting_customers_, cust_drops_, customer_in_chair_,
                   in_service_, money_paid_ >>

\* C18  Lock discipline: every step that writes a shared field of the Shop is
\* taken by the thread that holds mutex_, and the read of cust_drops_ by
\* get_cust_drops is made by a caller that holds mutex_; mutex_ has at most
\* one holder, a thread inside a critical section; and once visitShop,
\* leaveShop, helloCustomer or byeCustomer has returned, and while it is
\* blocked in a wait, the thread does not hold mutex_.
C18_LockDiscipline ==
    /\ [][SharedFields' # SharedFields => (mutex_ # NoThread /\ mutex_' = NoThread)]_vars
    /\ [][reported' # reported => mutex_ = MainThread]_vars
    /\ [](\A c \in Customers :
             mutex_ = CustomerThread(c)
                => cust_pc[c] \in {"visit", "v_woken", "leave", "l_woken"})
    /\ [](\A b \in Barbers :
             (mutex_ = BarberThread(b) /\ main_pc = "join")
                => barb_pc[b] \in {"hello", "h_woken", "cutting", "b_woken"})

\* Customer c takes a step in which visitShop calls assignBarber: the test
\* of Shop.cpp:163 or 177 lets a new customer through (Shop.cpp:164, 186),
\* or a woken customer tries again (Shop.cpp:195)
CallsAssignBarber(c) ==
    \/ /\ cust_pc[c] = "visit" /\ cust_pc'[c] # "visit"
       /\ (max_waiting_cust_ = 0 \/ waiting_customers_ # max_waiting_cust_)
    \/ cust_pc[c] = "v_woken" /\ cust_pc'[c] # "v_woken"

\* C19  assignBarber picks the lowest free slot: when some chair is empty the
\* caller gets the least index i with customer_in_chair_[i] = 0, that slot
\* and no other is set to the caller's id; when every chair is occupied the
\* result is -1 and no chair changes.
C19_LowestFreeSlot ==
    [][\A c \in Customers :
          CallsAssignBarber(c)
             => IF EmptyChairs = {}
                THEN /\ customer_in_chair_' = customer_in_chair_
                     /\ barbID'[c] \notin Barbers
                ELSE /\ barbID'[c] \in EmptyChairs
                     /\ \A i \in EmptyChairs : barbID'[c] <= i
                     /\ customer_in_chair_' =
                           [customer_in_chair_ EXCEPT ![barbID'[c]] = c]]_vars

\* C19 witness: with both chairs of a two-barber shop once taken, chair 0
\* was cleared and has been given to the next customer while chair 1 still
\* holds its first occupant.
C19_Witness ==
    /\ max_working_barb_ = 2
    /\ \E c, d, e \in Customers :
          /\ barbID[e] = 0 /\ haircut_byes[e] = 1
          /\ customer_in_chair_[1] = d /\ haircut_byes[d] = 0
          /\ customer_in_chair_[0] = c /\ barbID[c] = 0 /\ c # e

\* C20  Single retry: a customer blocks on cond_customers_waiting_ only
\* straight from the start of visitShop, so at most once per call; once
\* woken he calls assignBarber once and the call ends, with the slot he got
\* or with -1 and one drop, and in both cases waiting_customers_ goes down
\* by exactly one; he never goes back to waiting.
C20_SingleRetry ==
    [][\A c \in Customers :
          /\ (cust_pc[c] # "v_wait" /\ cust_pc'[c] = "v_wait")
                => cust_pc[c] = "visit"
          /\ cust_pc[c] = "v_wait" => cust_pc'[c] \in {"v_wait", "v_woken"}
          /\ (cust_pc[c] = "v_woken" /\ cust_pc'[c] # "v_woken")
                => /\ waiting_customers_' = waiting_customers_ - 1
                   /\ \/ /\ cust_pc'[c] = "leave"
                         /\ barbID'[c] \in EmptyChairs
                         /\ customer_in_chair_'[barbID'[c]] = c
                         /\ cust_drops_' = cust_drops_
                      \/ /\ cust_pc'[c] = "done"
                         /\ barbID'[c] = -1
                         /\ EmptyChairs = {}
                         /\ cust_drops_' = cust_drops_ + 1]_vars

\* C20 witness: one barber, two customers: the second took a waiting chair,
\* woke up while the first still had his haircut, found no empty chair and
\* was dropped; the waiting chair is free again.
C20_Witness ==
    /\ max_working_barb_ = 1
    /\ max_waiting_cust_ > 0
    /\ num_customers = 2
    /\ spurious = 1
    /\ waiting_customers_ = 0
    /\ cust_drops_ = 1
    /\ customer_in_chair_[0] # 0
    /\ \A c \in Customers : haircut_byes[c] = 0
    /\ \E c \in Customers : barbID[c] = -1 /\ cust_pc[c] = "done"

\* C21  Barging drop: when waits end only by a signal, a customer woken from
\* a waiting chair by the signal of byeCustomer can still return -1 from
\* visitShop, because a customer who arrived later took the freed chair
\* first.  This happens only in a shop with at least 2 waiting chairs, with
\* every service chair occupied as the woken customer runs again, and it
\* counts as one drop; C21_Witness is the run in which it happens.
C21_BargingDrop ==
    [][\A c \in Customers :
          (cust_pc[c] = "v_woken" /\ barbID'[c] = -1)
             => /\ max_waiting_cust_ >= 2
                /\ EmptyChairs = {}
                /\ cust_drops_' = cust_drops_ + 1]_vars

\* C21 witness: Shop with 2 waiting chairs, three customers, no spurious
\* wake-up: one customer has been served, the one who waited behind him has
\* been dropped, and the one who arrived last sits in the chair.  Nobody
\* was turned away at the door: the waiting chairs were never both taken.
C21_Witness ==
    /\ max_waiting_cust_ >= 2
    /\ num_customers = 3
    /\ spurious = 0
    /\ cust_drops_ = 1
    /\ waiting_customers_ = 0
    /\ \E c, d, e \in Customers :
          /\ haircut_byes[e] = 1
          /\ barbID[d] = -1 /\ cust_pc[d] = "done"
          /\ d < c
          /\ barbID[c] \in Barbers /\ customer_in_chair_[barbID[c]] = c
          /\ haircut_byes[c] = 0

\* Customer c takes a step inside leaveShop: from the lock (Shop.cpp:260) or
\* from the wake-up of the wait at Shop.cpp:267
InLeaveShop(c) ==
    /\ cust_pc[c] \in {"leave", "l_woken"}
    /\ cust_pc'[c] # cust_pc[c]

\* C22  Frame of leaveShop: leaveShop(c, s) changes no field of the Shop but
\* money_paid_[s], which it sets to true as it returns: customer_in_chair_
\* and in_service_ of every slot, s included, waiting_customers_,
\* cust_drops_ and money_paid_ of every other slot stay as they are.
C22_LeaveShopFrame ==
    [][\A c \in Customers :
          InLeaveShop(c)
             => /\ customer_in_chair_' = customer_in_chair_
                /\ in_service_' = in_service_
                /\ waiting_customers_' = waiting_customers_
                /\ cust_drops_' = cust_drops_
                /\ \A b \in Barbers : b # barbID[c] => money_paid_'[b] = money_paid_[b]
                /\ IF cust_pc'[c] = "done"
                   THEN money_paid_'[barbID[c]]
                   ELSE money_paid_' = money_paid_]_vars

\* C22 witness: in a two-barber shop a customer has paid and returned from
\* leaveShop while he is still the occupant of his slot, and the other slot
\* is occupied and not paid.
C22_Witness ==
    /\ max_working_barb_ = 2
    /\ \E c, d \in Customers :
          /\ cust_pc[c] = "done" /\ barbID[c] \in Barbers
          /\ customer_in_chair_[barbID[c]] = c
          /\ money_paid_[barbID[c]]
          /\ barbID[d] \in Barbers /\ barbID[d] # barbID[c]
          /\ customer_in_chair_[barbID[d]] = d
          /\ ~ money_paid_[barbID[d]]

\* Customer c takes the step in which his visitShop returns -1
ReturnsNoSlot(c) == barbID[c] # -1 /\ barbID'[c] = -1

\* C23  visitShop returning -1: the caller is then the occupant of no slot;
\* the step that returns changes no slot's customer_in_chair_, in_service_
\* or money_paid_ and wakes no barber; the call's net effect on
\* waiting_customers_ is zero, the step that returns after a wait taking
\* back the one the step that began the wait had added; what is left of the
\* call is cust_drops_ + 1.
C23_NoSlotFrame ==
    /\ [](\A c \in Customers : barbID[c] = -1
             => \A b \in Barbers : customer_in_chair_[b] # c)
    /\ [][\A c \in Customers :
             /\ ReturnsNoSlot(c)
                   => /\ customer_in_chair_' = customer_in_chair_
                      /\ in_service_' = in_service_
                      /\ money_paid_' = money_paid_
                      /\ barb_pc' = barb_pc
                      /\ cust_drops_' = cust_drops_ + 1
                      /\ waiting_customers_' =
                            IF cust_pc[c] = "visit" THEN waiting_customers_
                                                    ELSE waiting_customers_ - 1
             /\ (cust_pc[c] = "visit" /\ cust_pc'[c] = "v_wait")
                   => waiting_customers_' = waiting_customers_ + 1]_vars

\* C23 witness: Shop(1,1) with three customers: the first has his haircut,
\* the third was turned away while the waiting chair was taken, and the
\* second, who had taken it, woke up early and was dropped as well; the
\* waiting chair is free again and nothing but cust_drops_ shows the calls.
C23_Witness ==
    /\ ShopOneOne
    /\ num_customers = 3
    /\ cust_drops_ = 2
    /\ waiting_customers_ = 0
    /\ Cardinality(Dropped) = 2
    /\ \A c \in Customers : haircut_byes[c] = 0
    /\ \E c \in Customers : customer_in_chair_[0] = c /\ barbID[c] = 0

\* Customers inside visitShop who hold a waiting chair: blocked at
\* Shop.cpp:193, or woken and not yet past Shop.cpp:199 or 205
SeatHolders == { c \in Customers : cust_pc[c] \in {"v_wait", "v_woken"} }

\* C24  In every state in which no thread is inside a critical section,
\* waiting_customers_ is the number of customers who hold a waiting chair:
\* those who have added themselves to the count and have not finished the
\* retry that follows their wake-up.
C24_WaitingCount == waiting_customers_ = Cardinality(SeatHolders)

\* C24 witness: two waiting chairs are held, one by a customer still
\* blocked and one by a customer who has been woken and has not run yet.
C24_Witness ==
    /\ waiting_customers_ = 2
    /\ SeatWaiters # {}
    /\ WokenWaiters # {}
    /\ EmptyChairs # {}

====
